---- MODULE Spec2Model ----
(***************************************************************************)
(* Model of src/core/OrderBook.cpp: the lock-free limit order book.        *)
(*                                                                         *)
(* Heap objects are numbered from 1 in allocation order; 0 is nullptr.     *)
(* Every access to shared memory (an atomic load, store, CAS or fetch-add, *)
(* or a plain read or write of a published Order) is one step of a thread. *)
(* Work on memory that no other thread can reach yet (a node that is not   *)
(* published, immutable fields such as key, next of a hash node and        *)
(* limitPrice) is folded into the step that follows it.                    *)
(* A step is an operator from a book state (a record) and a thread to the  *)
(* next book state.  The concurrent specifications interleave the steps of *)
(* several threads; the sequential specification runs the same steps of    *)
(* one operation to completion in one action.                              *)
(*                                                                         *)
(* compare_exchange_weak may fail spuriously; the loop then loads again   *)
(* from unchanged memory, which is the state before its load, so a         *)
(* spurious failure adds no state and is left out.                         *)
(* nextOrder, prevOrder and parentLimit are plain fields: racing accesses  *)
(* are undefined behaviour in C++.  The steps below interleave them as     *)
(* word-sized loads and stores, one of the outcomes a build can produce.   *)
(* entryTime and eventTime are stored in the Order and never read.         *)
(***************************************************************************)
EXTENDS Integers, Sequences, FiniteSets, TLC

VARIABLES limits, orders, orderIndex, limitIndex,
          buyTree, sellTree, highestBuy, lowestSell,
          th, calls, added, removed, last, nops, appended

vars == <<limits, orders, orderIndex, limitIndex, buyTree, sellTree,
          highestBuy, lowestSell, th, calls, added, removed, last, nops,
          appended>>

\* ------------------------------------------------------------------ bounds
BUCKETS == 1024
MaxOps == 3
MaxQueueOps == 4
MaxFilOps == 3
MaxNewOps == 2
MaxConcOps == 3
MaxSetupOrders == 2
MaxCancelOps == 3
MaxLiveOps == 2
MaxTreeOps == 3

\* Inputs.  1 and 1025 (10 and 1034) fall into the same hash bucket.
Ids == {1, 1025}
Prices == {10, 12}
Shares == {1, 2}
QueuePrices == {10}
ConcPrices == {10, 12}
ConcShares == {2}
LivePrices == {10, 1034}
FilPrices == {10, 20}
TreePrices == {10, 20, 1034}
SeqThreads == {1}
ConcThreads == {1, 2}
FilThreads == {1, 2}
CancelThreads == {1, 2, 3}

Keys == Ids \cup LivePrices \cup TreePrices \cup Prices \cup QueuePrices \cup ConcPrices
            \cup FilPrices \cup (1..(MaxNewOps + MaxConcOps + MaxSetupOrders + 2))

\* ---------------------------------------------------------- record helpers
Merge(r, u) == [k \in DOMAIN r |-> IF k \in DOMAIN u THEN u[k] ELSE r[k]]

SetTh(s, t, u) == [s EXCEPT !.th[t] = Merge(@, u)]

\* ------------------------------------------------------------------- Order
NewOrder(id, buy, shares, price) ==
    [idNumber |-> id, buyOrSell |-> buy, shares |-> shares, limitPrice |-> price,
     nextOrder |-> 0, prevOrder |-> 0, parentLimit |-> 0]

\* ------------------------------------------------------------------- Limit
NewLimit(price) ==
    [limitPrice |-> price, size |-> 0, totalVolume |-> 0,
     parent |-> 0, leftChild |-> 0, rightChild |-> 0,
     headOrder |-> 0, tailOrder |-> 0, deleted |-> FALSE]

\* --------------------------------------------------------- LockFreeHashMap
\* std::hash<int> is the identity on the non-negative keys used here.
hasher(key) == key

Bucket(key) == hasher(key) % BUCKETS

BucketIdx == {Bucket(k) : k \in Keys}

EmptyMap == [buckets |-> [b \in BucketIdx |-> 0], nodes |-> <<>>]

\* The walk of find / erase from node cur to the first node with the key:
\* key and next of a published node never change.
RECURSIVE NextMatch(_, _, _)
NextMatch(m, cur, key) ==
    IF cur = 0 THEN 0
    ELSE IF m.nodes[cur].key = key THEN cur
    ELSE NextMatch(m, m.nodes[cur].next, key)

\* Mutant of insert_cas: an entry that already holds the key is overwritten.
insert_cas_overwrite(m, key, val, head) ==
    LET c == NextMatch(m, head, key)
    IN IF m.buckets[Bucket(key)] # head THEN [ok |-> FALSE, m |-> m]
       ELSE IF c # 0 THEN [ok |-> TRUE, m |-> [m EXCEPT !.nodes[c].value = val]]
       ELSE [ok |-> TRUE,
             m  |-> [buckets |-> [m.buckets EXCEPT ![Bucket(key)] = Len(m.nodes) + 1],
                     nodes   |-> Append(m.nodes, [key |-> key, value |-> val, next |-> head])]]

\* The CAS of insert: push a new node, whose next is the head read before.
insert_cas(m, key, val, head) ==
    IF m.buckets[Bucket(key)] = head
    THEN [ok |-> TRUE,
          m  |-> [buckets |-> [m.buckets EXCEPT ![Bucket(key)] = Len(m.nodes) + 1],
                  nodes   |-> Append(m.nodes, [key |-> key, value |-> val, next |-> head])]]
    ELSE [ok |-> FALSE, m |-> m]

\* Mutant of erase_cas: the value is cleared without comparing it with old.
erase_cas_blind(m, cur, old) ==
    [ok |-> TRUE, m |-> [m EXCEPT !.nodes[cur].value = 0]]

\* Mutant of erase_cas: the value is returned but not cleared.
erase_cas_keep(m, cur, old) ==
    [ok |-> m.nodes[cur].value = old, m |-> m]

\* The CAS of erase on node cur: value from old to V().
erase_cas(m, cur, old) ==
    IF m.nodes[cur].value = old
    THEN [ok |-> TRUE, m |-> [m EXCEPT !.nodes[cur].value = 0]]
    ELSE [ok |-> FALSE, m |-> m]

\* find(key) on a map at rest: the value of the first node with the key and
\* a non-empty value, or V().
RECURSIVE find(_, _, _)
find(m, cur, key) ==
    LET c == NextMatch(m, cur, key)
    IN IF c = 0 THEN 0
       ELSE IF m.nodes[c].value # 0 THEN m.nodes[c].value
       ELSE find(m, m.nodes[c].next, key)

\* ------------------------------------------------------------------ thread
Idle == [op |-> "none", pc |-> "idle", id |-> 0, buy |-> FALSE, shares |-> 0,
         price |-> 0, o |-> 0, L |-> 0, tail |-> 0, parent |-> 0, cur |-> 0,
         newNode |-> 0, hcur |-> 0, head |-> 0, old |-> 0, prev |-> 0, next |-> 0,
         conc |-> "alone"]

State == [limits |-> limits, orders |-> orders, orderIndex |-> orderIndex,
          limitIndex |-> limitIndex, buyTree |-> buyTree, sellTree |-> sellTree,
          highestBuy |-> highestBuy, lowestSell |-> lowestSell, th |-> th,
          calls |-> calls, added |-> added, removed |-> removed,
          last |-> last, nops |-> nops, appended |-> appended]

NoOp == [op |-> "none", id |-> 0, buy |-> FALSE, shares |-> 0, price |-> 0, ret |-> 0]

EmptyBook(T) ==
    [limits |-> <<>>, orders |-> <<>>, orderIndex |-> EmptyMap,
     limitIndex |-> EmptyMap, buyTree |-> 0, sellTree |-> 0,
     highestBuy |-> 0, lowestSell |-> 0, th |-> [t \in T |-> Idle],
     calls |-> {}, added |-> {}, removed |-> {}, last |-> NoOp, nops |-> 0,
     appended |-> {}]

\* An operation of thread t returns ret: the thread is idle again.
Return(s, t, ret) ==
    LET me == s.th[t]
    IN [s EXCEPT !.th[t] = Idle,
                 !.last = [op |-> me.op, id |-> me.id, buy |-> me.buy,
                           shares |-> me.shares, price |-> me.price, ret |-> ret]]

\* ------------------------------------------------- OrderBook::bestBid etc.
bestBid(s) == s.highestBuy
bestAsk(s) == s.lowestSell

\* ---------------------------------------------- OrderBook::findOrInsertLimit
\* return L: to the caller, onNewOrder, or out of the book.
fil_return(s, t, L) ==
    LET me == s.th[t]
        s1 == [s EXCEPT !.calls = @ \cup {<<me.buy, me.price, L, me.conc = "batch">>}]
    IN IF me.op = "onNewOrder"
       THEN SetTh(s1, t, [pc |-> "app_load", L |-> L, parent |-> 0, cur |-> 0,
                          newNode |-> 0, hcur |-> 0, head |-> 0, old |-> 0])
       ELSE Return(s1, t, L)

\* limitIndex.find(price): load the bucket head, walk to the first match.
fil_find(s, t) ==
    LET me == s.th[t]
        c  == NextMatch(s.limitIndex, s.limitIndex.buckets[Bucket(me.price)], me.price)
    IN IF c = 0 THEN SetTh(s, t, [pc |-> "fil_root", hcur |-> 0])
       ELSE SetTh(s, t, [pc |-> "fil_find_val", hcur |-> c])

\* limitIndex.find(price): load the value of a matching node.
fil_find_val(s, t) ==
    LET me == s.th[t]
        v  == s.limitIndex.nodes[me.hcur].value
        c  == NextMatch(s.limitIndex, s.limitIndex.nodes[me.hcur].next, me.price)
    IN IF v # 0 THEN fil_return(s, t, v)
       ELSE IF c = 0 THEN SetTh(s, t, [pc |-> "fil_root", hcur |-> 0])
       ELSE SetTh(s, t, [hcur |-> c])

\* The body of the walk after cur was loaded: stop at an empty slot (allocate
\* the new node), stop at the price, or go on below cur.
fil_visit(s, t, parent, cur) ==
    LET me == s.th[t]
    IN IF cur = 0
       THEN SetTh([s EXCEPT !.limits = Append(@, NewLimit(me.price))], t,
                  [pc |-> "fil_cas", parent |-> parent, cur |-> 0,
                   newNode |-> Len(s.limits) + 1])
       ELSE IF me.price = s.limits[cur].limitPrice
       THEN SetTh(s, t, [pc |-> "li_load", parent |-> parent, cur |-> cur, L |-> cur])
       ELSE SetTh(s, t, [pc |-> "fil_walk", parent |-> parent, cur |-> cur])

\* cur = root.load()
fil_root(s, t) ==
    fil_visit(s, t, 0, IF s.th[t].buy THEN s.buyTree ELSE s.sellTree)

\* parent = cur; cur = the left or right child of cur
fil_walk(s, t) ==
    LET me == s.th[t]
        n  == s.limits[me.cur]
    IN fil_visit(s, t, me.cur,
                 IF me.price < n.limitPrice THEN n.leftChild ELSE n.rightChild)

\* Mutant of fil_cas: the new node is linked on the other side of its parent.
fil_cas_flip(s, t) ==
    LET me   == s.th[t]
        left == me.parent # 0 /\ me.price > s.limits[me.parent].limitPrice
        link == IF me.parent = 0
                THEN (IF me.buy THEN s.buyTree ELSE s.sellTree)
                ELSE IF left THEN s.limits[me.parent].leftChild
                ELSE s.limits[me.parent].rightChild
    IN IF link = me.cur
       THEN IF me.parent = 0
            THEN SetTh(IF me.buy THEN [s EXCEPT !.buyTree = me.newNode]
                                 ELSE [s EXCEPT !.sellTree = me.newNode],
                       t, [pc |-> "uip_load", L |-> me.newNode])
            ELSE SetTh(IF left
                       THEN [s EXCEPT !.limits[me.parent].leftChild = me.newNode]
                       ELSE [s EXCEPT !.limits[me.parent].rightChild = me.newNode],
                       t, [pc |-> "fil_parent", L |-> me.newNode])
       ELSE SetTh([s EXCEPT !.limits[me.newNode].deleted = TRUE], t,
                  [pc |-> "fil_root", newNode |-> 0, parent |-> 0, cur |-> 0])

\* Mutant of fil_cas: after a failed CAS the deleted node is still registered
\* and returned.
fil_cas_leak(s, t) ==
    LET me   == s.th[t]
        left == me.parent # 0 /\ me.price < s.limits[me.parent].limitPrice
        link == IF me.parent = 0
                THEN (IF me.buy THEN s.buyTree ELSE s.sellTree)
                ELSE IF left THEN s.limits[me.parent].leftChild
                ELSE s.limits[me.parent].rightChild
    IN IF link = me.cur
       THEN IF me.parent = 0
            THEN SetTh(IF me.buy THEN [s EXCEPT !.buyTree = me.newNode]
                                 ELSE [s EXCEPT !.sellTree = me.newNode],
                       t, [pc |-> "uip_load", L |-> me.newNode])
            ELSE SetTh(IF left
                       THEN [s EXCEPT !.limits[me.parent].leftChild = me.newNode]
                       ELSE [s EXCEPT !.limits[me.parent].rightChild = me.newNode],
                       t, [pc |-> "fil_parent", L |-> me.newNode])
       ELSE SetTh([s EXCEPT !.limits[me.newNode].deleted = TRUE], t,
                  [pc |-> "li_load", L |-> me.newNode])

\* The CAS of the root or of the parent's child link from nullptr to newNode;
\* when it fails the new node is deleted and the walk starts again.
fil_cas(s, t) ==
    LET me   == s.th[t]
        left == me.parent # 0 /\ me.price < s.limits[me.parent].limitPrice
        link == IF me.parent = 0
                THEN (IF me.buy THEN s.buyTree ELSE s.sellTree)
                ELSE IF left THEN s.limits[me.parent].leftChild
                ELSE s.limits[me.parent].rightChild
    IN IF link = me.cur
       THEN IF me.parent = 0
            THEN SetTh(IF me.buy THEN [s EXCEPT !.buyTree = me.newNode]
                                 ELSE [s EXCEPT !.sellTree = me.newNode],
                       t, [pc |-> "uip_load", L |-> me.newNode])
            ELSE SetTh(IF left
                       THEN [s EXCEPT !.limits[me.parent].leftChild = me.newNode]
                       ELSE [s EXCEPT !.limits[me.parent].rightChild = me.newNode],
                       t, [pc |-> "fil_parent", L |-> me.newNode])
       ELSE SetTh([s EXCEPT !.limits[me.newNode].deleted = TRUE], t,
                  [pc |-> "fil_root", newNode |-> 0, parent |-> 0, cur |-> 0])

\* newNode->parent.store(parent)
fil_parent(s, t) ==
    LET me == s.th[t]
    IN SetTh([s EXCEPT !.limits[me.newNode].parent = me.parent], t,
             [pc |-> "uip_load"])

\* -------------------------------------------- OrderBook::updateInsidePointer
\* Mutant of uip_load: the candidate is installed without comparing prices.
uip_load_nocheck(s, t) ==
    SetTh(s, t, [pc |-> "uip_cas",
                 old |-> IF s.th[t].buy THEN s.highestBuy ELSE s.lowestSell])

\* old = inside.load(); return when old is at least as aggressive as cand.
uip_load(s, t) ==
    LET me   == s.th[t]
        cand == me.newNode
        old  == IF me.buy THEN s.highestBuy ELSE s.lowestSell
    IN IF old # 0 /\ ( (me.buy /\ s.limits[old].limitPrice >= s.limits[cand].limitPrice)
                      \/ (~me.buy /\ s.limits[old].limitPrice <= s.limits[cand].limitPrice) )
       THEN SetTh(s, t, [pc |-> "li_load", old |-> 0])
       ELSE SetTh(s, t, [pc |-> "uip_cas", old |-> old])

\* Mutant of uip_cas: only an empty inside pointer is replaced, so the
\* pointer keeps the Limit that was installed first.
uip_cas_first(s, t) ==
    LET me     == s.th[t]
        inside == IF me.buy THEN s.highestBuy ELSE s.lowestSell
    IN IF inside = me.old
       THEN SetTh(IF me.old # 0 THEN s
                  ELSE IF me.buy THEN [s EXCEPT !.highestBuy = me.newNode]
                  ELSE [s EXCEPT !.lowestSell = me.newNode],
                  t, [pc |-> "li_load", old |-> 0])
       ELSE SetTh(s, t, [pc |-> "uip_load", old |-> 0])

\* inside.compare_exchange_weak(old, cand); a failure loads again.
uip_cas(s, t) ==
    LET me     == s.th[t]
        inside == IF me.buy THEN s.highestBuy ELSE s.lowestSell
    IN IF inside = me.old
       THEN SetTh(IF me.buy THEN [s EXCEPT !.highestBuy = me.newNode]
                            ELSE [s EXCEPT !.lowestSell = me.newNode],
                  t, [pc |-> "li_load", old |-> 0])
       ELSE SetTh(s, t, [pc |-> "uip_load", old |-> 0])

\* limitIndex.insert(price, L): head = buckets[idx].load()
li_load(s, t) ==
    SetTh(s, t, [pc |-> "li_cas",
                 head |-> s.limitIndex.buckets[Bucket(s.th[t].price)]])

\* limitIndex.insert(price, L): the CAS of the bucket head; then return L.
li_cas(s, t) ==
    LET me == s.th[t]
        r  == insert_cas(s.limitIndex, me.price, me.L, me.head)
    IN IF r.ok THEN fil_return([s EXCEPT !.limitIndex = r.m], t, me.L)
       ELSE SetTh(s, t, [pc |-> "li_load", head |-> 0])

\* ------------------------------------------------------ OrderBook::onNewOrder
\* tail = L->tailOrder.load(); o->prevOrder = tail; o->nextOrder = nullptr
app_load(s, t) ==
    LET me   == s.th[t]
        tail == s.limits[me.L].tailOrder
    IN SetTh([s EXCEPT !.orders[me.o].prevOrder = tail,
                       !.orders[me.o].nextOrder = 0],
             t, [pc |-> "app_cas", tail |-> tail])

\* appended records, for the properties only, that o is the k-th order whose
\* tailOrder CAS on L succeeded: <<L, k, o>>.
Appended(s, L, o) ==
    s.appended \cup {<<L, Cardinality({a \in s.appended : a[1] = L}) + 1, o>>}

\* Mutant of app_cas: tailOrder is stored without comparing it with tail.
app_cas_blind(s, t) ==
    LET me == s.th[t]
    IN SetTh([s EXCEPT !.limits[me.L].tailOrder = me.o,
                       !.appended = Appended(s, me.L, me.o)], t,
             [pc |-> "app_link"])

\* Mutant of app_cas: a failed CAS retries with the tail it read before.
app_cas_stale(s, t) ==
    LET me == s.th[t]
    IN IF s.limits[me.L].tailOrder = me.tail
       THEN SetTh([s EXCEPT !.limits[me.L].tailOrder = me.o,
                            !.appended = Appended(s, me.L, me.o)], t,
                  [pc |-> "app_link"])
       ELSE s

\* L->tailOrder.compare_exchange_weak(tail, o); a failure loads again.
app_cas(s, t) ==
    LET me == s.th[t]
    IN IF s.limits[me.L].tailOrder = me.tail
       THEN SetTh([s EXCEPT !.limits[me.L].tailOrder = me.o,
                            !.appended = Appended(s, me.L, me.o)], t,
                  [pc |-> "app_link"])
       ELSE SetTh(s, t, [pc |-> "app_load", tail |-> 0])

\* if (tail) tail->nextOrder = o; else L->headOrder.store(o)
app_link(s, t) ==
    LET me == s.th[t]
    IN SetTh(IF me.tail # 0
             THEN [s EXCEPT !.orders[me.tail].nextOrder = me.o]
             ELSE [s EXCEPT !.limits[me.L].headOrder = me.o],
             t, [pc |-> "no_parent", tail |-> 0])

\* Mutant of no_parent: the order is registered in orderIndex before its
\* increments are applied.
no_parent_publish(s, t) ==
    LET me == s.th[t]
        r  == insert_cas(s.orderIndex, me.id, me.o, s.orderIndex.buckets[Bucket(me.id)])
    IN SetTh([s EXCEPT !.orders[me.o].parentLimit = me.L, !.orderIndex = r.m],
             t, [pc |-> "no_size"])

\* o->parentLimit = L
no_parent(s, t) ==
    LET me == s.th[t]
    IN SetTh([s EXCEPT !.orders[me.o].parentLimit = me.L], t, [pc |-> "no_size"])

\* Mutant of no_size: the order is counted in every Limit.
no_size_all(s, t) ==
    SetTh([s EXCEPT !.limits = [L \in DOMAIN @ |-> [@[L] EXCEPT !.size = @ + 1]]],
          t, [pc |-> "no_volume"])

\* L->size.fetch_add(1)
no_size(s, t) ==
    LET me == s.th[t]
    IN SetTh([s EXCEPT !.limits[me.L].size = @ + 1], t, [pc |-> "no_volume"])

\* Mutant of no_volume: totalVolume counts orders, not shares.
no_volume_one(s, t) ==
    LET me == s.th[t]
    IN SetTh([s EXCEPT !.limits[me.L].totalVolume = @ + 1], t,
             [pc |-> "oi_load"])

\* L->totalVolume.fetch_add(shares)
no_volume(s, t) ==
    LET me == s.th[t]
    IN SetTh([s EXCEPT !.limits[me.L].totalVolume = @ + me.shares], t,
             [pc |-> "oi_load"])

\* orderIndex.insert(id, o): head = buckets[idx].load()
oi_load(s, t) ==
    SetTh(s, t, [pc |-> "oi_cas",
                 head |-> s.orderIndex.buckets[Bucket(s.th[t].id)]])

\* orderIndex.insert(id, o): the CAS of the bucket head; then onNewOrder ends.
oi_cas(s, t) ==
    LET me == s.th[t]
        r  == insert_cas(s.orderIndex, me.id, me.o, me.head)
    IN IF r.ok
       THEN Return([s EXCEPT !.orderIndex = r.m, !.added = @ \cup {me.o}], t, 0)
       ELSE SetTh(s, t, [pc |-> "oi_load", head |-> 0])

\* -------------------------------------------------------- OrderBook::onCancel
\* orderIndex.erase(id): load the bucket head, walk to the first match.
oc_head(s, t) ==
    LET me == s.th[t]
        c  == NextMatch(s.orderIndex, s.orderIndex.buckets[Bucket(me.id)], me.id)
    IN IF c = 0 THEN Return(s, t, 0)
       ELSE SetTh(s, t, [pc |-> "oc_val", hcur |-> c])

\* erase goes on to the next node with the key, or returns V().
oc_advance(s, t) ==
    LET me == s.th[t]
        c  == NextMatch(s.orderIndex, s.orderIndex.nodes[me.hcur].next, me.id)
    IN IF c = 0 THEN Return(s, t, 0)
       ELSE SetTh(s, t, [pc |-> "oc_val", hcur |-> c, old |-> 0])

\* orderIndex.erase(id): old = cur->value.load()
oc_val(s, t) ==
    LET me  == s.th[t]
        old == s.orderIndex.nodes[me.hcur].value
    IN IF old # 0 THEN SetTh(s, t, [pc |-> "oc_cas", old |-> old])
       ELSE oc_advance(s, t)

\* orderIndex.erase(id): cur->value.compare_exchange_strong(old, V())
oc_cas(s, t) ==
    LET me == s.th[t]
        r  == erase_cas(s.orderIndex, me.hcur, me.old)
    IN IF r.ok
       THEN SetTh([s EXCEPT !.orderIndex = r.m], t,
                  [pc |-> "oc_prev", o |-> me.old, hcur |-> 0, old |-> 0])
       ELSE oc_advance(s, t)

\* L = o->parentLimit; prev = o->prevOrder
oc_prev(s, t) ==
    LET me == s.th[t]
    IN SetTh(s, t, [pc |-> "oc_next", L |-> s.orders[me.o].parentLimit,
                    prev |-> s.orders[me.o].prevOrder])

\* next = o->nextOrder
oc_next(s, t) ==
    LET me == s.th[t]
    IN SetTh(s, t, [pc |-> "oc_unlink_prev", next |-> s.orders[me.o].nextOrder])

\* if (prev) prev->nextOrder = next; else L->headOrder.store(next)
oc_unlink_prev(s, t) ==
    LET me == s.th[t]
    IN SetTh(IF me.prev # 0
             THEN [s EXCEPT !.orders[me.prev].nextOrder = me.next]
             ELSE [s EXCEPT !.limits[me.L].headOrder = me.next],
             t, [pc |-> "oc_unlink_next"])

\* Mutant of oc_unlink_next: the successor keeps its prevOrder.
oc_unlink_next_stale(s, t) ==
    LET me == s.th[t]
    IN SetTh(IF me.next # 0 THEN s
             ELSE [s EXCEPT !.limits[me.L].tailOrder = me.prev],
             t, [pc |-> "oc_size"])

\* if (next) next->prevOrder = prev; else L->tailOrder.store(prev)
oc_unlink_next(s, t) ==
    LET me == s.th[t]
    IN SetTh(IF me.next # 0
             THEN [s EXCEPT !.orders[me.next].prevOrder = me.prev]
             ELSE [s EXCEPT !.limits[me.L].tailOrder = me.prev],
             t, [pc |-> "oc_size"])

\* L->size.fetch_sub(1)
oc_size(s, t) ==
    LET me == s.th[t]
    IN SetTh([s EXCEPT !.limits[me.L].size = @ - 1], t, [pc |-> "oc_volume"])

\* Mutant of oc_volume: an inside pointer retreats from a Limit that empties.
oc_volume_retreat(s, t) ==
    LET me == s.th[t]
        s1 == [s EXCEPT !.limits[me.L].totalVolume = @ - s.orders[me.o].shares,
                        !.removed = @ \cup {me.o}]
        s2 == IF s1.limits[me.L].size # 0 THEN s1
              ELSE [s1 EXCEPT !.highestBuy = IF @ = me.L THEN 0 ELSE @,
                              !.lowestSell = IF @ = me.L THEN 0 ELSE @]
    IN Return(s2, t, me.o)

\* L->totalVolume.fetch_sub(o->shares); return o
oc_volume(s, t) ==
    LET me == s.th[t]
    IN Return([s EXCEPT !.limits[me.L].totalVolume = @ - s.orders[me.o].shares,
                        !.removed = @ \cup {me.o}],
              t, me.o)

\* ------------------------------------------------------------ calls and steps
\* Thread t enters onNewOrder: o = new Order{...}, then findOrInsertLimit.
call_onNewOrder(s, t, id, buy, shares, price) ==
    SetTh([s EXCEPT !.orders = Append(@, NewOrder(id, buy, shares, price)),
                    !.nops = @ + 1],
          t, [op |-> "onNewOrder", pc |-> "fil_find", id |-> id, buy |-> buy,
              shares |-> shares, price |-> price, o |-> Len(s.orders) + 1])

call_onCancel(s, t, id) ==
    SetTh([s EXCEPT !.nops = @ + 1], t,
          [op |-> "onCancel", pc |-> "oc_head", id |-> id])

\* conc records, for the properties only, how the call overlaps with others:
\* "alone", "batch" (it overlaps only with calls of findOrInsertLimit for the
\* same side and price) or "mixed".
call_findOrInsertLimit(s, t, buy, price) ==
    LET others == {u \in DOMAIN s.th \ {t} : s.th[u].pc # "idle"}
        peers  == {u \in others :
                      /\ s.th[u].op = "findOrInsertLimit"
                      /\ s.th[u].buy = buy /\ s.th[u].price = price
                      /\ s.th[u].conc # "mixed"}
        kind   == IF others = {} THEN "alone"
                  ELSE IF others = peers THEN "batch" ELSE "mixed"
        s1 == [s EXCEPT !.nops = @ + 1,
                        !.th = [u \in DOMAIN s.th |->
                                   IF u \in others THEN [s.th[u] EXCEPT !.conc = kind]
                                   ELSE s.th[u]]]
    IN SetTh(s1, t, [op |-> "findOrInsertLimit", pc |-> "fil_find", buy |-> buy,
                     price |-> price, conc |-> kind])

\* The next step of thread t, by its place in the code.
Step(s, t) ==
    LET pc == s.th[t].pc
    IN CASE pc = "fil_find"       -> fil_find(s, t)
         [] pc = "fil_find_val"   -> fil_find_val(s, t)
         [] pc = "fil_root"       -> fil_root(s, t)
         [] pc = "fil_walk"       -> fil_walk(s, t)
         [] pc = "fil_cas"        -> fil_cas(s, t)
         [] pc = "fil_parent"     -> fil_parent(s, t)
         [] pc = "uip_load"       -> uip_load(s, t)
         [] pc = "uip_cas"        -> uip_cas(s, t)
         [] pc = "li_load"        -> li_load(s, t)
         [] pc = "li_cas"         -> li_cas(s, t)
         [] pc = "app_load"       -> app_load(s, t)
         [] pc = "app_cas"        -> app_cas(s, t)
         [] pc = "app_link"       -> app_link(s, t)
         [] pc = "no_parent"      -> no_parent(s, t)
         [] pc = "no_size"        -> no_size(s, t)
         [] pc = "no_volume"      -> no_volume(s, t)
         [] pc = "oi_load"        -> oi_load(s, t)
         [] pc = "oi_cas"         -> oi_cas(s, t)
         [] pc = "oc_head"        -> oc_head(s, t)
         [] pc = "oc_val"         -> oc_val(s, t)
         [] pc = "oc_cas"         -> oc_cas(s, t)
         [] pc = "oc_prev"        -> oc_prev(s, t)
         [] pc = "oc_next"        -> oc_next(s, t)
         [] pc = "oc_unlink_prev" -> oc_unlink_prev(s, t)
         [] pc = "oc_unlink_next" -> oc_unlink_next(s, t)
         [] pc = "oc_size"        -> oc_size(s, t)
         [] pc = "oc_volume"      -> oc_volume(s, t)
         [] OTHER                 -> s

\* Thread t runs alone until its operation returns.
RECURSIVE Run(_, _)
Run(s, t) == IF s.th[t].pc = "idle" THEN s ELSE Run(Step(s, t), t)

\* The operations, each run to completion by one caller.
onNewOrder(s, t, id, buy, shares, price) ==
    Run(call_onNewOrder(s, t, id, buy, shares, price), t)

onCancel(s, t, id) == Run(call_onCancel(s, t, id), t)

findOrInsertLimit(s, t, buy, price) == Run(call_findOrInsertLimit(s, t, buy, price), t)

\* ---------------------------------------------------------------- actions
Apply(n) ==
    \E m \in {n} :
        /\ limits' = m.limits /\ orders' = m.orders
        /\ orderIndex' = m.orderIndex /\ limitIndex' = m.limitIndex
        /\ buyTree' = m.buyTree /\ sellTree' = m.sellTree
        /\ highestBuy' = m.highestBuy /\ lowestSell' = m.lowestSell
        /\ th' = m.th /\ calls' = m.calls /\ added' = m.added
        /\ removed' = m.removed /\ last' = m.last /\ nops' = m.nops
        /\ appended' = m.appended

Start(T, b) ==
    /\ limits = b.limits /\ orders = b.orders
    /\ orderIndex = b.orderIndex /\ limitIndex = b.limitIndex
    /\ buyTree = b.buyTree /\ sellTree = b.sellTree
    /\ highestBuy = b.highestBuy /\ lowestSell = b.lowestSell
    /\ th = b.th /\ calls = b.calls /\ added = b.added
    /\ removed = b.removed /\ last = b.last /\ nops = b.nops
    /\ appended = b.appended

At(t, pc) == th[t].pc = pc

\* Thread t is the lowest idle thread of T.  Idle threads hold no state, so
\* which of them makes a call makes no difference to the book.
NextCaller(T, t) == \A u \in T : u < t => th[u].pc # "idle"

\* -- sequential: one caller, each operation runs to completion
SeqNewOrder ==
    \E t \in SeqThreads, id \in Ids, buy \in BOOLEAN, sh \in Shares, p \in Prices :
        /\ nops < MaxOps
        /\ Apply(onNewOrder(State, t, id, buy, sh, p))

SeqCancel ==
    \E t \in SeqThreads, id \in Ids :
        /\ nops < MaxOps
        /\ Apply(onCancel(State, t, id))

SeqFindOrInsertLimit ==
    \E t \in SeqThreads, buy \in BOOLEAN, p \in Prices :
        /\ nops < MaxOps
        /\ Apply(findOrInsertLimit(State, t, buy, p))

InitSeq == Start(SeqThreads, EmptyBook(SeqThreads))

NextSeq == SeqNewOrder \/ SeqCancel \/ SeqFindOrInsertLimit

SpecSeq == InitSeq /\ [][NextSeq]_vars

\* -- sequential, one price: the queue of one Limit
QueueNewOrder ==
    \E t \in SeqThreads, id \in Ids, buy \in BOOLEAN, sh \in Shares,
       p \in QueuePrices :
        /\ nops < MaxQueueOps
        /\ Apply(onNewOrder(State, t, id, buy, sh, p))

QueueCancel ==
    \E t \in SeqThreads, id \in Ids :
        /\ nops < MaxQueueOps
        /\ Apply(onCancel(State, t, id))

NextQueue == QueueNewOrder \/ QueueCancel

SpecQueue == InitSeq /\ [][NextQueue]_vars

\* -- concurrent: the steps of the threads of T interleave
FilFind(T)     == \E t \in T : At(t, "fil_find") /\ Apply(fil_find(State, t))
FilFindVal(T)  == \E t \in T : At(t, "fil_find_val") /\ Apply(fil_find_val(State, t))
FilRoot(T)     == \E t \in T : At(t, "fil_root") /\ Apply(fil_root(State, t))
FilWalk(T)     == \E t \in T : At(t, "fil_walk") /\ Apply(fil_walk(State, t))
FilCas(T)      == \E t \in T : At(t, "fil_cas") /\ Apply(fil_cas(State, t))
FilParent(T)   == \E t \in T : At(t, "fil_parent") /\ Apply(fil_parent(State, t))
UipLoad(T)     == \E t \in T : At(t, "uip_load") /\ Apply(uip_load(State, t))
UipCas(T)      == \E t \in T : At(t, "uip_cas") /\ Apply(uip_cas(State, t))
LiLoad(T)      == \E t \in T : At(t, "li_load") /\ Apply(li_load(State, t))
LiCas(T)       == \E t \in T : At(t, "li_cas") /\ Apply(li_cas(State, t))
AppLoad(T)     == \E t \in T : At(t, "app_load") /\ Apply(app_load(State, t))
AppCas(T)      == \E t \in T : At(t, "app_cas") /\ Apply(app_cas(State, t))
AppLink(T)     == \E t \in T : At(t, "app_link") /\ Apply(app_link(State, t))
NoParent(T)    == \E t \in T : At(t, "no_parent") /\ Apply(no_parent(State, t))
NoSize(T)      == \E t \in T : At(t, "no_size") /\ Apply(no_size(State, t))
NoVolume(T)    == \E t \in T : At(t, "no_volume") /\ Apply(no_volume(State, t))
OiLoad(T)      == \E t \in T : At(t, "oi_load") /\ Apply(oi_load(State, t))
OiCas(T)       == \E t \in T : At(t, "oi_cas") /\ Apply(oi_cas(State, t))
OcHead(T)      == \E t \in T : At(t, "oc_head") /\ Apply(oc_head(State, t))
OcVal(T)       == \E t \in T : At(t, "oc_val") /\ Apply(oc_val(State, t))
OcCas(T)       == \E t \in T : At(t, "oc_cas") /\ Apply(oc_cas(State, t))
OcPrev(T)      == \E t \in T : At(t, "oc_prev") /\ Apply(oc_prev(State, t))
OcNext(T)      == \E t \in T : At(t, "oc_next") /\ Apply(oc_next(State, t))
OcUnlinkPrev(T) == \E t \in T : At(t, "oc_unlink_prev") /\ Apply(oc_unlink_prev(State, t))
OcUnlinkNext(T) == \E t \in T : At(t, "oc_unlink_next") /\ Apply(oc_unlink_next(State, t))
OcSize(T)      == \E t \in T : At(t, "oc_size") /\ Apply(oc_size(State, t))
OcVolume(T)    == \E t \in T : At(t, "oc_volume") /\ Apply(oc_volume(State, t))

FilSteps(T) ==
    \/ FilFind(T) \/ FilFindVal(T) \/ FilRoot(T) \/ FilWalk(T) \/ FilCas(T)
    \/ FilParent(T) \/ UipLoad(T) \/ UipCas(T) \/ LiLoad(T) \/ LiCas(T)

NewSteps(T) ==
    \/ AppLoad(T) \/ AppCas(T) \/ AppLink(T) \/ NoParent(T) \/ NoSize(T)
    \/ NoVolume(T) \/ OiLoad(T) \/ OiCas(T)

CancelSteps(T) ==
    \/ OcHead(T) \/ OcVal(T) \/ OcCas(T) \/ OcPrev(T) \/ OcNext(T)
    \/ OcUnlinkPrev(T) \/ OcUnlinkNext(T) \/ OcSize(T) \/ OcVolume(T)

\* -- concurrent findOrInsertLimit calls only
\* Idle threads are interchangeable: the lowest of them makes the next call.
FilCall ==
    \E t \in FilThreads, buy \in BOOLEAN, p \in FilPrices :
        /\ At(t, "idle") /\ nops < MaxFilOps /\ NextCaller(FilThreads, t)
        /\ Apply(call_findOrInsertLimit(State, t, buy, p))

InitFil == Start(FilThreads, EmptyBook(FilThreads))

NextFil == FilCall \/ FilSteps(FilThreads)

SpecFil == InitFil /\ [][NextFil]_vars

\* -- concurrent onNewOrder calls only; ids are unique
NewCall ==
    \E t \in ConcThreads, buy \in BOOLEAN, sh \in ConcShares, p \in ConcPrices :
        /\ At(t, "idle") /\ nops < MaxNewOps
        /\ Apply(call_onNewOrder(State, t, nops + 1, buy, sh, p))

InitConc == Start(ConcThreads, EmptyBook(ConcThreads))

NextNew == NewCall \/ FilSteps(ConcThreads) \/ NewSteps(ConcThreads)

SpecNew == InitConc /\ [][NextNew]_vars

\* -- concurrent onNewOrder and onCancel calls on one side; ids are unique
\* Idle threads are interchangeable: the lowest of them makes the next call.
ConcNewCall ==
    \E t \in ConcThreads, sh \in ConcShares, p \in ConcPrices :
        /\ At(t, "idle") /\ nops < MaxConcOps /\ NextCaller(ConcThreads, t)
        /\ Apply(call_onNewOrder(State, t, Len(orders) + 1, TRUE, sh, p))

ConcCancelCall ==
    \E t \in ConcThreads, id \in 1..Len(orders) :
        /\ At(t, "idle") /\ nops < MaxConcOps /\ NextCaller(ConcThreads, t)
        /\ Apply(call_onCancel(State, t, id))

NextConc ==
    \/ ConcNewCall \/ ConcCancelCall
    \/ FilSteps(ConcThreads) \/ NewSteps(ConcThreads) \/ CancelSteps(ConcThreads)

SpecConc == InitConc /\ [][NextConc]_vars

\* -- orders placed one at a time, then concurrent onCancel calls only
SetupNewOrder ==
    \E sh \in ConcShares, p \in ConcPrices :
        /\ \A t \in CancelThreads : At(t, "idle")
        /\ nops = Len(orders) /\ Len(orders) < MaxSetupOrders
        /\ Apply(onNewOrder(State, 1, Len(orders) + 1, TRUE, sh, p))

CancelCall ==
    \E t \in CancelThreads, id \in 1..Len(orders) :
        /\ At(t, "idle") /\ nops - Len(orders) < MaxCancelOps
        /\ Apply(call_onCancel(State, t, id))

InitCancel == Start(CancelThreads, EmptyBook(CancelThreads))

NextCancel == SetupNewOrder \/ CancelCall \/ CancelSteps(CancelThreads)

SpecCancel == InitCancel /\ [][NextCancel]_vars

\* ================================================================ properties
AllIdle == \A t \in DOMAIN th : th[t].pc = "idle"

LimitIds(s) == {L \in 1..Len(s.limits) : ~s.limits[L].deleted}

\* The orders met from o by nextOrder (Fwd) or prevOrder (Bwd), at most fuel.
RECURSIVE Fwd(_, _, _)
Fwd(s, o, fuel) ==
    IF o = 0 \/ fuel = 0 THEN <<>>
    ELSE <<o>> \o Fwd(s, s.orders[o].nextOrder, fuel - 1)

RECURSIVE Bwd(_, _, _)
Bwd(s, o, fuel) ==
    IF o = 0 \/ fuel = 0 THEN <<>>
    ELSE <<o>> \o Bwd(s, s.orders[o].prevOrder, fuel - 1)

QueueOf(s, L) == Fwd(s, s.limits[L].headOrder, Len(s.orders) + 1)

BackOf(s, L) == Bwd(s, s.limits[L].tailOrder, Len(s.orders) + 1)

Reverse(q) == [i \in 1..Len(q) |-> q[Len(q) + 1 - i]]

Range(q) == {q[i] : i \in 1..Len(q)}

RECURSIVE SumShares(_, _)
SumShares(s, S) ==
    IF S = {} THEN 0
    ELSE LET o == CHOOSE x \in S : TRUE
         IN s.orders[o].shares + SumShares(s, S \ {o})

\* The orders of S in arrival order (orders are numbered as they arrive).
RECURSIVE InArrivalOrder(_)
InArrivalOrder(S) ==
    IF S = {} THEN <<>>
    ELSE LET o == CHOOSE x \in S : \A y \in S : x <= y
         IN <<o>> \o InArrivalOrder(S \ {o})

\* The orders whose onNewOrder returned and that no onCancel returned.
Resting(s) == s.added \ s.removed

RestingAt(s, L) == {o \in Resting(s) : s.orders[o].parentLimit = L}

RestingWith(s, id) == {o \in Resting(s) : s.orders[o].idNumber = id}

\* The nodes linked in the tree below root.
RECURSIVE Linked(_, _, _)
Linked(s, n, fuel) ==
    IF n = 0 \/ fuel = 0 THEN {}
    ELSE {n} \cup Linked(s, s.limits[n].leftChild, fuel - 1)
             \cup Linked(s, s.limits[n].rightChild, fuel - 1)

TreeOf(s, buy) == Linked(s, IF buy THEN s.buyTree ELSE s.sellTree, Len(s.limits))

\* C1: after any sequence of onNewOrder / onCancel operations applied one at a
\* time, for every Limit size is the number of orders reachable from headOrder
\* by nextOrder and totalVolume is the sum of the shares of those orders.
C1_Aggregates ==
    \A L \in LimitIds(State) :
        LET q == QueueOf(State, L)
        IN /\ Cardinality(Range(q)) = Len(q)
           /\ limits[L].size = Len(q)
           /\ limits[L].totalVolume = SumShares(State, Range(q))

C1_Witness ==
    /\ last.op = "onCancel" /\ last.ret # 0
    /\ \E L \in LimitIds(State) :
           /\ limits[L].size = 1 /\ limits[L].totalVolume = 2
           /\ Len(QueueOf(State, L)) = 1

\* C2: when onNewOrder and onCancel operations on the same Limit run
\* concurrently (unique ids), then once all have completed the orders
\* reachable from headOrder are exactly the orders added and not cancelled,
\* size is their number and totalVolume the sum of their shares.
C2_ConcurrentAggregates ==
    AllIdle =>
        \A L \in LimitIds(State) :
            LET q == QueueOf(State, L)
            IN /\ Len(q) = Cardinality(Range(q))
               /\ Range(q) = RestingAt(State, L)
               /\ limits[L].size = Cardinality(RestingAt(State, L))
               /\ limits[L].totalVolume = SumShares(State, RestingAt(State, L))

\* C3: all findOrInsertLimit(side, price) calls, in any interleaving with
\* calls for other sides and prices, return the same Limit: no two calls with
\* the same side and price return different Limits.
C3_OneLimitPerSidePrice ==
    \A c, d \in calls : (c[1] = d[1] /\ c[2] = d[2]) => c[3] = d[3]

\* C4: when several threads call findOrInsertLimit concurrently with the same
\* side and price, then after all calls have completed exactly one Limit with
\* that price is linked in that side's tree and the calls returned it.
C4_ConcurrentSameCall ==
    AllIdle =>
        \A c \in calls :
            c[4] => LET here == {L \in TreeOf(State, c[1]) : limits[L].limitPrice = c[2]}
                    IN here = {c[3]}

\* C5: after any sequence of completed onNewOrder operations, bestBid() is
\* non-empty with a price >= the price of every buy order submitted, and
\* bestAsk() is non-empty with a price <= the price of every sell order
\* submitted, whenever an order was submitted on that side.
C5_InsideBoundsOrders ==
    \A o \in added :
        IF orders[o].buyOrSell
        THEN /\ bestBid(State) # 0
             /\ limits[bestBid(State)].limitPrice >= orders[o].limitPrice
        ELSE /\ bestAsk(State) # 0
             /\ limits[bestAsk(State)].limitPrice <= orders[o].limitPrice

\* C6: after onNewOrder completes, the order's parentLimit is a node of the
\* tree of the order's side.
C6_OrderOnOwnSide ==
    \A o \in added : orders[o].parentLimit \in TreeOf(State, orders[o].buyOrSell)

\* The values the order index still holds.
Indexed(s) == {s.orderIndex.nodes[i].value : i \in 1..Len(s.orderIndex.nodes)} \ {0}

\* This step is onCancel(id), run to completion.
CancelStep(id) == nops' = nops + 1 /\ last'.op = "onCancel" /\ last'.id = id

\* onCancel(id) of a resting id returns an order with that id, removes it from
\* its Limit's queue and from the order index and decrements size by 1 and
\* totalVolume by its shares.
CancelFound(id) ==
    (CancelStep(id) /\ RestingWith(State, id) # {}) =>
        LET r == last'.ret
            L == orders[r].parentLimit
        IN /\ r \in RestingWith(State, id)
           /\ r \in Range(QueueOf(State, L))
           /\ r \notin Range(QueueOf(State', L))
           /\ r \in Indexed(State) /\ r \notin Indexed(State')
           /\ limits'[L].size = limits[L].size - 1
           /\ limits'[L].totalVolume = limits[L].totalVolume - orders[r].shares

\* onCancel(id) of an id with no resting order returns nullptr and changes no
\* Limit and no order.
CancelNotFound(id) ==
    (CancelStep(id) /\ RestingWith(State, id) = {}) =>
        /\ last'.ret = 0
        /\ limits' = limits /\ orders' = orders

\* C7 as claimed, its last sentence: a second onCancel(id) directly after a
\* successful one returns not-found.
C7_SecondCancelNotFound ==
    [][\A id \in Ids :
          (CancelStep(id) /\ last.op = "onCancel" /\ last.id = id /\ last.ret # 0)
              => last'.ret = 0]_vars

\* C7, amended: onCancel(id) of a resting id returns that order, unlinks it,
\* erases it from the index and decrements size by 1 and totalVolume by its
\* shares; onCancel(id) of an id with no resting order returns nullptr and
\* changes no Limit and no order.  A second onCancel(id) directly after a
\* successful one returns not-found when no other order with that id rests,
\* and returns that other order when one does.
C7_Cancel ==
    [][\A id \in Ids :
          /\ CancelFound(id)
          /\ CancelNotFound(id)
          /\ (CancelStep(id) /\ last.op = "onCancel" /\ last.id = id /\ last.ret # 0)
                => IF RestingWith(State, id) = {} THEN last'.ret = 0
                   ELSE last'.ret \in RestingWith(State, id) \ {last.ret}]_vars

C7_Witness ==
    /\ last.op = "onCancel" /\ last.ret = 0
    /\ \E o \in removed : orders[o].idNumber = last.id
    /\ RestingWith(State, last.id) = {}
    /\ Resting(State) # {}

\* C8: under sequential operations the traversal of a Limit's queue from
\* headOrder by nextOrder lists the resting orders of the Limit in arrival
\* order, tailOrder is its last order, and the traversal from tailOrder by
\* prevOrder is its reverse.
C8_Fifo ==
    \A L \in LimitIds(State) :
        LET q == QueueOf(State, L)
        IN /\ q = InArrivalOrder(RestingAt(State, L))
           /\ limits[L].tailOrder = (IF q = <<>> THEN 0 ELSE q[Len(q)])
           /\ BackOf(State, L) = Reverse(q)

C8_Witness ==
    \E L \in LimitIds(State) : QueueOf(State, L) = <<1, 3>> /\ removed = {2}

\* C9: under a workload of onNewOrder operations only, sequential or
\* concurrent, the price of bestBid() never decreases, the price of bestAsk()
\* never increases, and an inside pointer that is non-empty stays non-empty.
C9_InsideMonotone ==
    [][/\ bestBid(State) # 0 =>
            /\ bestBid(State') # 0
            /\ limits'[bestBid(State')].limitPrice >= limits[bestBid(State)].limitPrice
       /\ bestAsk(State) # 0 =>
            /\ bestAsk(State') # 0
            /\ limits'[bestAsk(State')].limitPrice <= limits[bestAsk(State)].limitPrice]_vars

C9_Witness ==
    /\ AllIdle
    /\ buyTree # 0 /\ bestBid(State) # 0 /\ bestBid(State) # buyTree
    /\ limits[bestBid(State)].limitPrice > limits[buyTree].limitPrice

\* Only onNewOrder operations of one side were applied.
OnlyNewOrders(buy) ==
    /\ nops = Len(orders) /\ added = 1..Len(orders) /\ Len(orders) > 0
    /\ \A o \in added : orders[o].buyOrSell = buy

AtPrice(p) == {o \in added : orders[o].limitPrice = p}

\* C10: from an empty book, after each of a sequence of buy-side onNewOrder
\* operations bestBid() is the Limit of the maximum buy price submitted, and
\* its totalVolume and size are the sum of shares and the number of the orders
\* submitted at that price; symmetrically bestAsk() and the minimum price for
\* sell-side operations.
C10_BestIsExtreme ==
    /\ OnlyNewOrders(TRUE) =>
          LET b == bestBid(State)
          IN /\ b # 0
             /\ \A o \in added : limits[b].limitPrice >= orders[o].limitPrice
             /\ \E o \in added : limits[b].limitPrice = orders[o].limitPrice
             /\ limits[b].size = Cardinality(AtPrice(limits[b].limitPrice))
             /\ limits[b].totalVolume = SumShares(State, AtPrice(limits[b].limitPrice))
    /\ OnlyNewOrders(FALSE) =>
          LET a == bestAsk(State)
          IN /\ a # 0
             /\ \A o \in added : limits[a].limitPrice <= orders[o].limitPrice
             /\ \E o \in added : limits[a].limitPrice = orders[o].limitPrice
             /\ limits[a].size = Cardinality(AtPrice(limits[a].limitPrice))
             /\ limits[a].totalVolume = SumShares(State, AtPrice(limits[a].limitPrice))

C10_Witness ==
    /\ OnlyNewOrders(TRUE) /\ Len(orders) = 3
    /\ bestBid(State) # 0 /\ bestBid(State) # buyTree
    /\ limits[bestBid(State)].size = 2 /\ limits[bestBid(State)].totalVolume = 3

\* C11: onCancel never changes highestBuy or lowestSell: after cancelling every
\* order at the best price bestBid() / bestAsk() still return the same Limit,
\* with unchanged price, size 0 and totalVolume 0, also when a less aggressive
\* Limit of that side has resting orders.
InsideKept(b) ==
    b # 0 =>
        /\ limits'[b].limitPrice = limits[b].limitPrice
        /\ RestingAt(State', b) = {} =>
               limits'[b].size = 0 /\ limits'[b].totalVolume = 0

C11_CancelKeepsInside ==
    [][\A id \in Ids :
          CancelStep(id) =>
              /\ bestBid(State') = bestBid(State)
              /\ bestAsk(State') = bestAsk(State)
              /\ InsideKept(bestBid(State))
              /\ InsideKept(bestAsk(State))]_vars

C11_Witness ==
    /\ last.op = "onCancel" /\ last.ret # 0
    /\ bestBid(State) = orders[last.ret].parentLimit
    /\ limits[bestBid(State)].size = 0 /\ limits[bestBid(State)].totalVolume = 0
    /\ \E L \in TreeOf(State, TRUE) :
           /\ limits[L].limitPrice < limits[bestBid(State)].limitPrice
           /\ limits[L].size > 0

\* The orders of L in the order in which their tailOrder CAS succeeded.
CasOrder(s, L) ==
    [k \in 1..Cardinality({a \in s.appended : a[1] = L}) |->
        CHOOSE o \in 1..Len(s.orders) : <<L, k, o>> \in s.appended]

\* C12: when onNewOrder operations run concurrently and no onCancel runs, then
\* after all have completed the queue of each Limit holds every new order of
\* the Limit exactly once: the traversal from headOrder by nextOrder visits
\* them in the order in which their tailOrder CAS succeeded and ends at
\* tailOrder, the prevOrder links mirror it, and size and totalVolume are the
\* number and the sum of shares of those orders.
C12_ConcurrentAppend ==
    AllIdle =>
        \A L \in LimitIds(State) :
            LET q    == QueueOf(State, L)
                mine == {o \in added : orders[o].parentLimit = L}
            IN /\ q = CasOrder(State, L)
               /\ Range(q) = mine /\ Len(q) = Cardinality(mine)
               /\ limits[L].tailOrder = (IF q = <<>> THEN 0 ELSE q[Len(q)])
               /\ BackOf(State, L) = Reverse(q)
               /\ limits[L].size = Len(q)
               /\ limits[L].totalVolume = SumShares(State, mine)

C12_Witness ==
    /\ AllIdle /\ added = {1, 2}
    /\ \E L \in LimitIds(State) : QueueOf(State, L) = <<2, 1>>

\* The threads that are inside onCancel and hold the order they erased.
Cancelling == {t \in DOMAIN th : th[t].op = "onCancel" /\ th[t].o # 0}

\* C13: when several threads call onCancel(id) concurrently for one resting
\* order, exactly one call gets and returns the order, the others return
\* not-found, and size and totalVolume are decremented once for the order.
C13_OneCancelWins ==
    /\ \A t \in Cancelling :
          /\ th[t].o \notin removed
          /\ orders[th[t].o].idNumber = th[t].id
          /\ \A u \in Cancelling \ {t} : th[u].o # th[t].o
    /\ AllIdle =>
          /\ last.op = "onCancel" =>
                /\ last.ret \in {0, last.id}
                /\ RestingWith(State, last.id) = {}
                /\ \E o \in removed : orders[o].idNumber = last.id
          /\ \A L \in LimitIds(State) :
                /\ limits[L].size = Cardinality(RestingAt(State, L))
                /\ limits[L].totalVolume = SumShares(State, RestingAt(State, L))

C13_Witness ==
    \E t \in Cancelling : \E u \in DOMAIN th \ {t} :
        /\ th[u].op = "onCancel" /\ th[u].id = th[t].id
        /\ th[u].pc = "oc_cas" /\ th[u].old = th[t].o

Below(s, n) == Linked(s, n, Len(s.limits))

\* The tree of a side is a binary search tree with distinct prices.
IsBst(s, buy) ==
    /\ \A n \in TreeOf(s, buy) :
          /\ \A m \in Below(s, s.limits[n].leftChild) :
                s.limits[m].limitPrice < s.limits[n].limitPrice
          /\ \A m \in Below(s, s.limits[n].rightChild) :
                s.limits[m].limitPrice > s.limits[n].limitPrice
          /\ Below(s, s.limits[n].leftChild) \cap Below(s, s.limits[n].rightChild) = {}
    /\ \A n, m \in TreeOf(s, buy) :
          s.limits[n].limitPrice = s.limits[m].limitPrice => n = m

\* A link that is set keeps its value, and a Limit keeps its price.
LinksKept ==
    /\ buyTree # 0 => buyTree' = buyTree
    /\ sellTree # 0 => sellTree' = sellTree
    /\ \A L \in 1..Len(limits) :
          /\ limits[L].leftChild # 0 => limits'[L].leftChild = limits[L].leftChild
          /\ limits[L].rightChild # 0 => limits'[L].rightChild = limits[L].rightChild
          /\ limits'[L].limitPrice = limits[L].limitPrice

\* -- concurrent findOrInsertLimit calls that grow the tree of one side
TreeCall ==
    \E t \in FilThreads, buy \in BOOLEAN, p \in TreePrices :
        /\ At(t, "idle") /\ nops < MaxTreeOps
        /\ \A u \in FilThreads : th[u].pc # "idle" => th[u].buy = buy
        /\ \A c \in calls : c[1] = buy
        /\ Apply(call_findOrInsertLimit(State, t, buy, p))

NextTree == TreeCall \/ FilSteps(FilThreads)

SpecTree == InitFil /\ [][NextTree]_vars

\* C14: in every reachable state under any interleaving of concurrent
\* findOrInsertLimit calls each side's tree is a binary search tree with
\* distinct prices, and a node once linked is never unlinked or moved.
C14_Bst ==
    /\ [](IsBst(State, TRUE) /\ IsBst(State, FALSE))
    /\ [][LinksKept]_vars

C14_Witness ==
    \E b \in BOOLEAN : \E n \in TreeOf(State, b) :
        /\ limits[n].leftChild # 0
        /\ limits[limits[n].leftChild].rightChild # 0
        /\ \E d \in 1..Len(limits) : limits[d].deleted

\* The Limits that findOrInsertLimit deleted after a failed link CAS.
Deleted == {d \in 1..Len(limits) : limits[d].deleted}

\* C15: a Limit that findOrInsertLimit discards after a failed link CAS was
\* never published: no deleted node is a tree root or a child, a value of
\* limitIndex, highestBuy or lowestSell, or the result of a call.
C15_DeletedNeverPublished ==
    \A d \in Deleted :
        /\ d \notin {buyTree, sellTree, highestBuy, lowestSell}
        /\ \A L \in 1..Len(limits) :
              limits[L].leftChild # d /\ limits[L].rightChild # d
        /\ \A i \in 1..Len(limitIndex.nodes) : limitIndex.nodes[i].value # d
        /\ \A c \in calls : c[3] # d
        /\ \A t \in DOMAIN th : th[t].L # d

C15_Witness ==
    /\ AllIdle /\ Deleted # {}
    /\ \E c \in calls : c[3] \notin Deleted

\* The linked node of a side with the most aggressive price, 0 for none.
Extreme(s, buy) ==
    LET T == TreeOf(s, buy)
    IN IF T = {} THEN 0
       ELSE CHOOSE n \in T : \A m \in T :
                IF buy THEN s.limits[n].limitPrice >= s.limits[m].limitPrice
                       ELSE s.limits[n].limitPrice <= s.limits[m].limitPrice

\* C16: whenever no findOrInsertLimit call is in progress highestBuy is the
\* maximum-price node linked in the buy tree and lowestSell the minimum-price
\* node linked in the sell tree, and each is empty exactly when its tree is.
C16_InsideIsExtreme ==
    AllIdle =>
        /\ highestBuy = Extreme(State, TRUE)
        /\ lowestSell = Extreme(State, FALSE)
        /\ (highestBuy = 0) = (buyTree = 0)
        /\ (lowestSell = 0) = (sellTree = 0)

C16_Witness ==
    /\ AllIdle /\ Deleted # {}
    /\ highestBuy # 0 /\ highestBuy # buyTree
    /\ lowestSell # 0 /\ lowestSell = sellTree

\* The most recently inserted order with the id that no cancel has erased,
\* 0 for none: orders are numbered in the order of their onNewOrder calls.
Newest(s, id) ==
    LET S == RestingWith(s, id)
    IN IF S = {} THEN 0 ELSE CHOOSE o \in S : \A x \in S : x <= o

\* orderIndex.find(id) in the current state.
FindOrder(id) == find(orderIndex, orderIndex.buckets[Bucket(id)], id)

\* The entries of orderIndex that differ between the two states of a step.
Touched ==
    {i \in 1..Len(orderIndex.nodes) : orderIndex.nodes'[i] # orderIndex.nodes[i]}

\* onNewOrder pushes one entry and changes none.
InsertPushes ==
    (nops' = nops + 1 /\ last'.op = "onNewOrder") =>
        /\ Len(orderIndex.nodes') = Len(orderIndex.nodes) + 1
        /\ Touched = {}
        /\ orderIndex.nodes'[Len(orderIndex.nodes')].key = last'.id
        /\ orderIndex.nodes'[Len(orderIndex.nodes')].value = Len(orders')
        /\ find(orderIndex', orderIndex'.buckets[Bucket(last'.id)], last'.id)
              = Len(orders')

\* onCancel clears and returns the newest live entry of its id, and no other.
ErasePops ==
    \A id \in Ids :
        CancelStep(id) =>
            /\ last'.ret = FindOrder(id)
            /\ Len(orderIndex.nodes') = Len(orderIndex.nodes)
            /\ \A i \in Touched :
                  /\ orderIndex.nodes[i].key = id
                  /\ orderIndex.nodes[i].value = last'.ret
                  /\ orderIndex.nodes'[i] = [orderIndex.nodes[i] EXCEPT !.value = 0]
            /\ Cardinality(Touched) = IF last'.ret = 0 THEN 0 ELSE 1

\* C17: under sequential use the identifier index is, per key, a stack of
\* live values: find returns the newest order of the id that was not erased,
\* insert pushes an entry and overwrites none, and erase clears and returns
\* exactly the newest live entry, leaving older duplicates in place.
C17_IndexIsStack ==
    /\ [](\A id \in Ids : FindOrder(id) = Newest(State, id))
    /\ [][InsertPushes /\ ErasePops]_vars

C17_Witness ==
    /\ Len(orders) = 2
    /\ orders[1].idNumber = orders[2].idNumber
    /\ removed = {1, 2}
    /\ last.op = "onCancel" /\ last.ret = 1

\* -- concurrent onNewOrder and onCancel calls, each thread scheduled fairly.
\* The two prices share a bucket of limitIndex.  Idle threads are
\* interchangeable: the lowest of them makes the next call.
LiveNewCall ==
    \E t \in ConcThreads, sh \in ConcShares, p \in LivePrices :
        /\ At(t, "idle") /\ nops < MaxLiveOps /\ NextCaller(ConcThreads, t)
        /\ Apply(call_onNewOrder(State, t, Len(orders) + 1, TRUE, sh, p))

LiveCancelCall ==
    \E t \in ConcThreads, id \in 1..Len(orders) :
        /\ At(t, "idle") /\ nops < MaxLiveOps /\ NextCaller(ConcThreads, t)
        /\ Apply(call_onCancel(State, t, id))

\* The next step of the operation that thread t is in.
ThreadStep(t) == th[t].pc # "idle" /\ Apply(Step(State, t))

NextLive ==
    \/ LiveNewCall \/ LiveCancelCall
    \/ \E t \in ConcThreads : ThreadStep(t)

\* A thread inside an operation is not suspended forever.
FairThreads == \A t \in ConcThreads : WF_vars(ThreadStep(t))

SpecLive == InitConc /\ [][NextLive]_vars /\ FairThreads

\* C18: with finitely many threads and operations and fair scheduling every
\* onNewOrder, onCancel and findOrInsertLimit call eventually returns: no CAS
\* retry loop runs forever.
C18_EveryCallReturns ==
    \A t \in ConcThreads : (th[t].pc # "idle") ~> (th[t].pc = "idle")

C18_Witness ==
    \E t \in ConcThreads :
        /\ th[t].pc = "app_cas"
        /\ limits[th[t].L].tailOrder # th[t].tail
        /\ Deleted # {}

\* Limit L and the links of its orders are the same after the step.
LimitKept(L) ==
    /\ limits'[L].size = limits[L].size
    /\ limits'[L].totalVolume = limits[L].totalVolume
    /\ limits'[L].headOrder = limits[L].headOrder
    /\ limits'[L].tailOrder = limits[L].tailOrder
    /\ \A o \in 1..Len(orders) :
          orders[o].parentLimit = L =>
              /\ orders'[o].nextOrder = orders[o].nextOrder
              /\ orders'[o].prevOrder = orders[o].prevOrder
              /\ orders'[o].parentLimit = L

\* The Limits of the state before the step with a price other than p.
OtherLimits(p) == {L \in 1..Len(limits) : limits[L].limitPrice # p}

\* C19: an onNewOrder or onCancel that acts on the Limit at price p leaves
\* size, totalVolume, headOrder, tailOrder and the queue links of the orders
\* of every Limit with another price as they were, also when it creates a
\* Limit or moves the inside pointer; an onCancel that finds nothing changes
\* no Limit.
C19_OtherLimitsKept ==
    [][/\ (nops' = nops + 1 /\ last'.op = "onNewOrder") =>
              \A L \in OtherLimits(last'.price) : LimitKept(L)
       /\ (nops' = nops + 1 /\ last'.op = "onCancel") =>
              \A L \in 1..Len(limits) :
                  (last'.ret = 0 \/ limits[L].limitPrice # orders[last'.ret].limitPrice)
                      => LimitKept(L)]_vars

C19_Witness ==
    /\ Len(limits) = 2 /\ Len(orders) = 3
    /\ limits[1].limitPrice # limits[2].limitPrice
    /\ limits[1].size = 2 /\ orders[1].nextOrder = 2
    /\ limits[2].size = 1 /\ limits[2].headOrder = 3
    /\ last.op = "onNewOrder" /\ last.buy
    /\ highestBuy = 2 /\ buyTree = 1

\* C20: in every reachable state under any interleaving of concurrent
\* onNewOrder and onCancel calls with positive quantities every Limit's size
\* and totalVolume are >= 0, and an order that is registered in orderIndex
\* has its parentLimit set and its increments applied: the counters of a
\* Limit cover its registered orders.
C20_CountersNonNegative ==
    /\ \A L \in 1..Len(limits) : limits[L].size >= 0 /\ limits[L].totalVolume >= 0
    /\ \A o \in Indexed(State) : orders[o].parentLimit # 0
    /\ \A L \in 1..Len(limits) :
          LET S == {o \in Indexed(State) : orders[o].parentLimit = L}
          IN /\ limits[L].size >= Cardinality(S)
             /\ limits[L].totalVolume >= SumShares(State, S)

C20_Witness ==
    \E t, u \in ConcThreads :
        /\ th[t].pc = "oc_size" /\ th[u].pc = "no_size"
        /\ th[u].L = orders[th[t].o].parentLimit
        /\ limits[th[u].L].size = 1

====
